---- MODULE Spec2Model ----
(***************************************************************************)
(* StorageUtility (ScStorage): the IndexedDB backend (src/src/IndexedDB.js) *)
(* and the facade in front of it, as a state machine.                       *)
(*                                                                          *)
(* The native IndexedDB engine is part of the state: databases with a       *)
(* version and object stores, open connections, and the per-database queue  *)
(* of open/delete requests.  A page starts with an empty registry over the  *)
(* databases an earlier session may have left.  One caller issues the       *)
(* public operations one after the other (it awaits each promise), or a     *)
(* read and a database delete in one task; the lazy deletes that a read     *)
(* starts without awaiting them run in the background.                      *)
(*                                                                          *)
(* Steps are event-loop tasks.  A chain of promise reactions runs inside    *)
(* the task that started it, so it is part of that step.  All transactions  *)
(* of the code are 'readwrite' on one store, and the engine runs such       *)
(* transactions in the order in which they were created: a request takes    *)
(* effect in the step that creates its transaction, and its completion      *)
(* event is a later step.                                                   *)
(***************************************************************************)
EXTENDS Integers, Sequences, FiniteSets, TLC

\* ---------------------------------------------------------------- bounds
MaxClock == 3
MaxId == 2
MaxPending == 2
MaxOps == 2
\* settings.LIFETIME, in clock ticks
LIFETIME == 1

\* ------------------------------------------------------------- constants
DBs == {"default", "other"}
Stores == {"todos"}
Vals == {1, 2}
INDEXEDDB_DATABASE == "default"
INDEXEDDB_CLOSE_AFTER_REQUEST == TRUE
\* settings.AS_OBJECT is not configured: undefined, read as false
AS_OBJECT == FALSE

Undefined == "undefined"
\* option values of a wrong type (truthy, so that validation looks at them)
NotAString == "<number>"
NotABoolean == "<string>"
NoId == 0 - 1

\* a JavaScript number or string used as a condition
TruthyNum(n) == n # NoId /\ n # 0
TruthyStr(s) == s # Undefined /\ s # ""

\* prev is history: the operation the caller completed before the current one
\* closed[d]: the handle the registry holds for d has been closed
VARIABLES now, dbs, registry, leaked, closed, pending, fg, ops, prev
\* the simple backend: window.localStorage, the WITH_META setting of the
\* ScStorage in use, and what its last call returned
VARIABLES localStorage, WITH_META, returned

simple == <<localStorage, WITH_META, returned>>

vars ==
  <<now, dbs, registry, leaked, closed, pending, fg, ops, prev,
    localStorage, WITH_META, returned>>

\* ------------------------------------------------------- native engine
NoStore == [exists |-> FALSE, nextId |-> 1, indexes |-> {}, recs |-> {}]
NoDB == [version |-> 0, stores |-> [s \in Stores |-> NoStore]]

\* the engine, the connection registry and the request queues as one value
W ==
  [dbs |-> dbs, registry |-> registry, leaked |-> leaked, closed |-> closed,
   pending |-> pending]

SetW(w) ==
  /\ dbs' = w.dbs
  /\ registry' = w.registry
  /\ leaked' = w.leaked
  /\ closed' = w.closed
  /\ pending' = w.pending
  /\ UNCHANGED simple

\* some connection to database d is open: the registry's, or one it lost
OpenConnection(w, d) == (w.registry[d] /\ ~w.closed[d]) \/ w.leaked[d]

StoreOf(w, d, s) == w.dbs[d].stores[s]

RecById(store, id) == {r \in store.recs : r.id = id}

IndexKey(r, index) == IF index = "id" THEN r.id ELSE r.todo

\* the records an index holds: those that have its key (todo = NoId stands
\* for a record without a todo field)
Indexed(recs, index) == {r \in recs : index = "id" \/ r.todo # NoId}

\* cursor order: by primary key, or by (index key, primary key)
Before(x, y, index) ==
  IF index = "todo"
  THEN x.todo < y.todo \/ (x.todo = y.todo /\ x.id <= y.id)
  ELSE x.id <= y.id

RECURSIVE CursorOrder(_, _)
CursorOrder(recs, index) ==
  IF recs = {} THEN <<>>
  ELSE LET r == CHOOSE x \in recs : \A y \in recs : Before(x, y, index)
       IN <<r>> \o CursorOrder(recs \ {r}, index)

\* IDBObjectStore.get(id)
StoreGet(store, id) == CursorOrder(RecById(store, id), "id")

\* IDBIndex.get(value): the first record of the index with that key
IndexGet(store, index, v) ==
  LET hits == CursorOrder({r \in Indexed(store.recs, index) :
                             IndexKey(r, index) = v}, index)
  IN IF hits = <<>> THEN <<>> ELSE <<hits[1]>>

\* an add whose key generator is not advanced
StoreAdd_SameKey(store, fields) ==
  [store EXCEPT !.recs = @ \cup {[id |-> store.nextId - 1, todo |-> fields.todo,
                                  expires |-> fields.expires,
                                  createdAt |-> fields.createdAt,
                                  updatedAt |-> fields.updatedAt]},
                !.nextId = @ + 1]

\* IDBObjectStore.add with the key generator
StoreAdd(store, fields) ==
  [store EXCEPT !.recs = @ \cup {[id |-> store.nextId, todo |-> fields.todo,
                                  expires |-> fields.expires,
                                  createdAt |-> fields.createdAt,
                                  updatedAt |-> fields.updatedAt]},
                !.nextId = @ + 1]

\* IDBObjectStore.put of a record that carries its key
StorePut(store, rec) ==
  [store EXCEPT !.recs = {r \in @ : r.id # rec.id} \cup {rec}]

\* a delete that empties the store (IDBObjectStore.clear for delete)
StoreDelete_Clear(store, key) == [store EXCEPT !.recs = {}]

\* IDBObjectStore.delete(key)
StoreDelete(store, key) == [store EXCEPT !.recs = {r \in @ : r.id # key}]

\* ------------------------------------------- DatabaseUtility (registry)
\* a queued native request: indexedDB.open(name, version) or
\* indexedDB.deleteDatabase(name); who is waiting for it, and for the open
\* of a background delete the store and key it goes on to delete
Request(kind, who, version, store, key, close, notify) ==
  [kind |-> kind, who |-> who, version |-> version, store |-> store,
   key |-> key, close |-> close, notify |-> notify]

\* a closeDB that closes the handle and keeps it in the registry
closeDB_KeepsEntry(w, dbName) ==
  IF dbName \in DBs /\ w.registry[dbName]
  THEN [w EXCEPT !.closed[dbName] = TRUE]
  ELSE w

\* closeDB: delete the entry, then close the handle it held
closeDB(w, dbName) ==
  IF dbName \in DBs /\ w.registry[dbName]
  THEN [w EXCEPT !.registry[dbName] = FALSE, !.closed[dbName] = FALSE]
  ELSE w

\* getDB resolves exactly when the registry holds a connection
getDB(w, dbName) == dbName \in DBs /\ w.registry[dbName]

\* openDB: the cached connection, or a native open at version = clock
openDB(w, dbName, req) ==
  IF getDB(w, dbName) THEN w
  ELSE [w EXCEPT !.pending[dbName] = Append(@, req)]

getStore(w, dbName, storeName) ==
  IF ~getDB(w, dbName) THEN "OpenDBFirst"
  ELSE IF ~StoreOf(w, dbName, storeName).exists THEN "StoreMissing"
  ELSE IF w.closed[dbName] THEN "InvalidState"
  ELSE IF StoreOf(w, dbName, storeName).exists THEN "ok"
  ELSE "StoreMissing"

\* an index declaration of options.indexes; flag is the name under which
\* indexOptions carries its first boolean ("none" when it carries none)
IndexDecl(name, flag) == [indexName |-> name, indexKey |-> name, flag |-> flag]

\* the indexes createStore creates, in order: the implicit id index, then
\* the declared ones
IndexNames(indexes) ==
  <<"id">> \o [i \in 1 .. Len(indexes) |-> indexes[i].indexName]

\* store.createIndex throws a ConstraintError for a name the store has
DuplicateIndex(names) ==
  \E i, j \in 1 .. Len(names) : i < j /\ names[i] = names[j]

\* a store whose only index is the implicit one
createStore_IdOnly(db, storeName, indexes) ==
  IF db.stores[storeName].exists THEN db
  ELSE [db EXCEPT !.stores[storeName] =
          [exists |-> TRUE, nextId |-> 1, indexes |-> {"id"}, recs |-> {}]]

\* createStore's onupgradeneeded listener: createObjectStore with keyPath id
\* and autoIncrement, then createIndex for each name
createStore(db, storeName, indexes) ==
  IF db.stores[storeName].exists THEN db
  ELSE [db EXCEPT !.stores[storeName] =
          [exists |-> TRUE, nextId |-> 1,
           indexes |-> {IndexNames(indexes)[i] : i \in 1 .. Len(IndexNames(indexes))},
           recs |-> {}]]

\* a createIndex that never throws
createStoreThrows_Never(db, storeName, indexes) == FALSE

\* the listener throws: the engine aborts the upgrade and fails the open
createStoreThrows(db, storeName, indexes) ==
  ~db.stores[storeName].exists /\ DuplicateIndex(IndexNames(indexes))

\* deleteStore's onupgradeneeded listener
deleteObjectStore(db, key) ==
  IF key \in Stores /\ db.stores[key].exists
  THEN [db EXCEPT !.stores[key] = NoStore]
  ELSE db

rejectError(w, options) ==
  IF options.closeDatabase THEN closeDB(w, options.database) ELSE w

\* ------------------------------------------------------------ validation
BoolOpt(o, default) ==
  IF o = "true" THEN TRUE ELSE IF o = "false" THEN FALSE ELSE default

\* options.expires: absent, a number (a duration from now) or a Date
ExpiresAt(expires, t) ==
  IF expires.kind = "undefined" \/ (expires.kind = "number" /\ expires.n = 0)
  THEN t + LIFETIME
  ELSE IF expires.kind = "number" THEN t + expires.n
  ELSE expires.n

\* a validation that does not look at options.indexes
validateOptionsWrite_AnyIndexes(data, options, t) ==
  [expires |-> ExpiresAt(options.expires, t),
   update |-> options.update,
   database |-> IF TruthyStr(options.database) THEN options.database
                ELSE INDEXEDDB_DATABASE,
   closeDatabase |-> BoolOpt(options.closeDatabase, INDEXEDDB_CLOSE_AFTER_REQUEST),
   indexes |-> options.indexes,
   err |-> IF options.expires.kind \notin {"undefined", "number", "date"}
           THEN "ExpiresType"
           ELSE IF options.database = NotAString THEN "DatabaseType"
           ELSE IF options.closeDatabase = NotABoolean THEN "CloseDatabaseType"
           ELSE IF options.update /\ data.id = NoId THEN "UpdateNeedsId"
           ELSE "none"]

validateOptionsWrite(data, options, t) ==
  [expires |-> ExpiresAt(options.expires, t),
   update |-> options.update,
   database |-> IF TruthyStr(options.database) THEN options.database
                ELSE INDEXEDDB_DATABASE,
   closeDatabase |-> BoolOpt(options.closeDatabase, INDEXEDDB_CLOSE_AFTER_REQUEST),
   indexes |-> options.indexes,
   err |-> IF options.expires.kind \notin {"undefined", "number", "date"}
           THEN "ExpiresType"
           ELSE IF options.database = NotAString THEN "DatabaseType"
           ELSE IF options.closeDatabase = NotABoolean THEN "CloseDatabaseType"
           ELSE IF options.update /\ data.id = NoId THEN "UpdateNeedsId"
           ELSE IF options.indexes # <<>> /\ options.indexes[1].flag # "unqiue"
           THEN "IndexesScheme"
           ELSE "none"]

\* which of the fields expires, createdAt, updatedAt the data object has
Reserved(data) == IF "reserved" \in DOMAIN data THEN data.reserved ELSE "none"

\* a validation that lets data.id through on a create
validateDataWrite_AnyId(data, options) == "none"

\* a validation that does not look for expires, createdAt and updatedAt
validateDataWrite_AnyField(data, options) ==
  IF ~options.update /\ data.id # NoId THEN "IdNotAllowed" ELSE "none"

validateDataWrite(data, options) ==
  IF Reserved(data) = "expires" THEN "ReservedExpires"
  ELSE IF Reserved(data) = "createdAt" THEN "ReservedCreatedAt"
  ELSE IF ~options.update /\ data.id # NoId THEN "IdNotAllowed"
  ELSE IF Reserved(data) = "updatedAt" THEN "ReservedUpdatedAt"
  ELSE "none"

validateOptionsRead(options) ==
  [database |-> IF TruthyStr(options.database) THEN options.database
                ELSE INDEXEDDB_DATABASE,
   closeDatabase |-> BoolOpt(options.closeDatabase, INDEXEDDB_CLOSE_AFTER_REQUEST),
   withMeta |-> BoolOpt(options.withMeta, AS_OBJECT),
   id |-> options.id, index |-> options.index, nameValue |-> options.nameValue]

validateDeleteOptions(options) ==
  [storeName |-> options.storeName,
   type |-> IF options.type = Undefined THEN "data" ELSE options.type,
   database |-> IF TruthyStr(options.database) THEN options.database
                ELSE INDEXEDDB_DATABASE,
   closeDatabase |-> BoolOpt(options.closeDatabase, INDEXEDDB_CLOSE_AFTER_REQUEST)]

\* --------------------------------------------------------------- delete
\* deleteData once openDB has resolved: getStore, store.delete, resolve(true)
deleteDataInStore(w, key, options) ==
  IF getStore(w, options.database, options.storeName) = "ok"
  THEN [w |-> [w EXCEPT !.dbs[options.database].stores[options.storeName] =
                          StoreDelete(@, key)],
        settled |-> "resolved", err |-> "none"]
  ELSE [w |-> rejectError(w, options), settled |-> "rejected",
        err |-> getStore(w, options.database, options.storeName)]

deleteData(w, key, options, who, notify, t) ==
  IF getDB(w, options.database)
  THEN deleteDataInStore(w, key, options)
  ELSE [w |-> openDB(w, options.database,
                     Request("open", who, t, options.storeName, key,
                             options.closeDatabase, notify)),
        settled |-> "pending", err |-> "none"]

\* deleteDatabase: closeDB, then the native request is queued; resolve(true)
\* follows in the same synchronous block
deleteDatabase(w, key) ==
  [closeDB(w, key) EXCEPT !.pending[key] =
     Append(@, Request("delete", "none", 0, "todos", NoId, FALSE, FALSE))]

\* the options object the reads hand to deleteMethod
LazyDeleteOptions(storeName, database) ==
  [storeName |-> storeName, databaseName |-> database, database |-> Undefined,
   type |-> Undefined, closeDatabase |-> Undefined]

\* deleteMethod(result.id, {storeName, databaseName: options.database}, settings)
deleteMethod(w, key, storeName, database, notify, t) ==
  deleteData(w, key, validateDeleteOptions(LazyDeleteOptions(storeName, database)),
             "bg", notify, t)

\* ------------------------------------------------- the caller's operation
Value(shape, meta, recs, b) == [shape |-> shape, meta |-> meta, recs |-> recs, b |-> b]
NoValue == Value("none", FALSE, <<>>, FALSE)
True == Value("bool", FALSE, <<>>, TRUE)

Idle ==
  [pc |-> "idle", kind |-> "none", mode |-> "none", db |-> INDEXEDDB_DATABASE,
   store |-> "todos", key |-> NoId, todo |-> 0, expires |-> 0, ttl |-> FALSE,
   close |-> FALSE, withMeta |-> FALSE, index |-> Undefined, nameValue |-> NoId,
   indexes |-> <<>>, found |-> <<>>, outcome |-> "none", err |-> "none",
   value |-> NoValue, reserved |-> "none", malformed |-> "none",
   given |-> [kind |-> "undefined", n |-> 0]]

\* the settled promise: what the caller called and what it got; for a write
\* that went through, found is the record now in the store
Settle(f, outcome, err, value) ==
  [Idle EXCEPT !.pc = "done", !.kind = f.kind, !.mode = f.mode, !.db = f.db,
               !.store = f.store, !.key = f.key, !.index = f.index,
               !.nameValue = f.nameValue, !.outcome = outcome, !.err = err,
               !.value = value, !.indexes = f.indexes, !.reserved = f.reserved,
               !.malformed = f.malformed,
               !.found = IF f.kind = "write" /\ outcome = "resolved" THEN f.found
                         ELSE <<>>]

\* what the history keeps of a settled operation: the call, how it settled,
\* and the record a write stored or a read by id returned
Summary(f) ==
  [kind |-> f.kind, mode |-> f.mode, db |-> f.db, store |-> f.store,
   key |-> f.key, outcome |-> f.outcome,
   found |-> IF f.kind = "read" /\ f.mode = "id" THEN f.value.recs ELSE f.found]

OptionsOf(f) == [database |-> f.db, storeName |-> f.store, closeDatabase |-> f.close]

\* what read resolves with: X, or {data: X} with options.withMeta
ReadValue(f, shape, recs) == Value(shape, f.withMeta, recs, FALSE)

\* has: !data is false, otherwise anything but an empty array is true
HasValue(v) ==
  Value("bool", FALSE, <<>>,
        IF v.shape = "null" THEN FALSE
        ELSE IF v.shape = "list" THEN v.recs # <<>>
        ELSE TRUE)

\* the promise of read, and of has on top of it
Resolved(f, shape, recs) ==
  Settle(f, "resolved", "none",
         IF f.kind = "has" THEN HasValue(ReadValue(f, shape, recs))
         ELSE ReadValue(f, shape, recs))

\* ------------------------------------------------------------ write
\* the record createDataInStore adds: createdAt and updatedAt are two
\* readings of the clock, t and then u
createDataInStore(data, options, t, u) ==
  [todo |-> data.todo, expires |-> options.expires, createdAt |-> t,
   updatedAt |-> u]

\* an update that keeps the fetched record's field where data has none
updateDataInStore_Merge(data, options, result, t) ==
  [id |-> data.id, todo |-> IF data.todo = NoId THEN result.todo ELSE data.todo,
   expires |-> result.expires, createdAt |-> result.createdAt, updatedAt |-> t]

\* the record updateDataInStore puts over the one it fetched
updateDataInStore(data, options, result, t) ==
  [id |-> data.id, todo |-> data.todo, expires |-> result.expires,
   createdAt |-> result.createdAt, updatedAt |-> t]

\* IndexedDBUtility.write once createStore has resolved.  The get and the put
\* of an update run in one transaction, which nothing on the store can come
\* between: they are one step, dated by the clock of that step.
WriteOpened(w, f, t, u) ==
  LET g == getStore(w, f.db, f.store)
      store == StoreOf(w, f.db, f.store)
      hit == StoreGet(store, f.key)
      data == [id |-> f.key, todo |-> f.todo]
      options == [expires |-> f.expires]
  IN IF g # "ok"
     THEN [w |-> rejectError(w, OptionsOf(f)), f |-> Settle(f, "rejected", g, NoValue)]
     ELSE IF f.mode = "update"
     THEN [w |-> IF hit = <<>> THEN w
                 ELSE [w EXCEPT !.dbs[f.db].stores[f.store] =
                         StorePut(@, updateDataInStore(data, options, hit[1], t))],
           f |-> [f EXCEPT !.pc = "requested",
                           !.found = IF hit = <<>> THEN <<>>
                                     ELSE <<updateDataInStore(data, options, hit[1], t)>>]]
     ELSE [w |-> [w EXCEPT !.dbs[f.db].stores[f.store] =
                    StoreAdd(@, createDataInStore(data, options, t, u))],
           f |-> [f EXCEPT !.pc = "requested",
                           !.found = <<[id |-> store.nextId] @@
                                        createDataInStore(data, options, t, u)>>]]

\* an update that leaves its promise pending when the id is not found
WriteCallback_Silent(w, f) ==
  IF f.mode = "update" /\ f.found = <<>>
  THEN [w |-> w, f |-> f]
  ELSE [w |-> IF f.close THEN closeDB(w, f.db) ELSE w,
        f |-> Settle(f, "resolved", "none", True)]

\* the completion event of add, or of get and put
WriteCallback(w, f) ==
  IF f.mode = "update" /\ f.found = <<>>
  THEN [w |-> w, f |-> Settle(f, "rejected", "IdNotFound", NoValue)]
  ELSE [w |-> IF f.close THEN closeDB(w, f.db) ELSE w,
        f |-> Settle(f, "resolved", "none", True)]

\* ------------------------------------------------------------- read
ReadMode(options) ==
  IF TruthyStr(options.index) /\ TruthyNum(options.nameValue) THEN "index"
  ELSE IF TruthyNum(options.id) THEN "id"
  ELSE "all"

\* IndexedDBUtility.read once openDB has resolved: the request is issued
ReadOpened(w, f) ==
  LET g == getStore(w, f.db, f.store)
      store == StoreOf(w, f.db, f.store)
  IN IF g # "ok"
     THEN [w |-> rejectError(w, OptionsOf(f)), f |-> Settle(f, "rejected", g, NoValue)]
     ELSE IF f.mode = "index"
     THEN IF f.index \notin store.indexes
          THEN [w |-> w, f |-> Settle(f, "rejected", "IndexMissing", NoValue)]
          ELSE [w |-> w, f |-> [f EXCEPT !.pc = "requested",
                                 !.found = IndexGet(store, f.index, f.nameValue)]]
     ELSE IF f.mode = "id"
     THEN [w |-> w, f |-> [f EXCEPT !.pc = "requested",
                                    !.found = StoreGet(store, f.key)]]
     ELSE IF TruthyStr(f.index) /\ f.index \notin store.indexes
          THEN [w |-> w, f |-> Settle(f, "rejected", "IndexMissing", NoValue)]
          ELSE [w |-> w, f |-> [f EXCEPT !.pc = "requested",
                                 !.found =
                                   IF TruthyStr(f.index)
                                   THEN CursorOrder(Indexed(store.recs, f.index), f.index)
                                   ELSE CursorOrder(store.recs, "id")]]

\* a record the reads drop and delete
Expired(r, t) == t > r.expires

readDataByID(w, f, t) ==
  IF f.found = <<>> THEN [w |-> w, f |-> Resolved(f, "null", <<>>)]
  ELSE IF Expired(f.found[1], t)
  THEN [w |-> deleteMethod(w, f.found[1].id, f.store, f.db, FALSE, t).w,
        f |-> Resolved(f, "null", <<>>)]
  ELSE [w |-> w, f |-> Resolved(f, "record", f.found)]

\* by index, with no catch on the delete: a rejected delete leaves the read
\* waiting
readDataByIndexAndNameValue_NoCatch(w, f, t) ==
  IF f.found = <<>> THEN [w |-> w, f |-> Resolved(f, "null", <<>>)]
  ELSE IF Expired(f.found[1], t)
  THEN LET d == deleteMethod(w, f.found[1].id, f.store, f.db, TRUE, t)
       IN [w |-> d.w,
           f |-> IF d.settled # "resolved" THEN [f EXCEPT !.pc = "awaitDelete"]
                 ELSE Resolved(f, "null", <<>>)]
  ELSE [w |-> w, f |-> Resolved(f, "record", f.found)]

\* by index the read waits for the delete to settle, either way
readDataByIndexAndNameValue(w, f, t) ==
  IF f.found = <<>> THEN [w |-> w, f |-> Resolved(f, "null", <<>>)]
  ELSE IF Expired(f.found[1], t)
  THEN LET d == deleteMethod(w, f.found[1].id, f.store, f.db, TRUE, t)
       IN [w |-> d.w,
           f |-> IF d.settled = "pending" THEN [f EXCEPT !.pc = "awaitDelete"]
                 ELSE Resolved(f, "null", <<>>)]
  ELSE [w |-> w, f |-> Resolved(f, "record", f.found)]

\* the cursor of readAllData over the records from position i on
RECURSIVE ScanFrom(_, _, _, _, _)
ScanFrom(w, f, i, dataArr, t) ==
  IF i > Len(f.found)
  THEN [w |-> IF f.close THEN closeDB(w, f.db) ELSE w,
        f |-> Resolved(f, "list", dataArr)]
  ELSE LET r == f.found[i]
       IN IF r.expires = 0
          THEN ScanFrom(w, f, i + 1, Append(dataArr, r), t)
          ELSE IF Expired(r, t)
          THEN ScanFrom(deleteMethod(w, r.id, f.store, f.db, FALSE, t).w,
                        f, i + 1, dataArr, t)
          ELSE ScanFrom(w, f, i + 1, Append(dataArr, r), t)

readAllData(w, f, t) == ScanFrom(w, f, 1, <<>>, t)

ReadCallback(w, f, t) ==
  IF f.mode = "index" THEN readDataByIndexAndNameValue(w, f, t)
  ELSE IF f.mode = "id" THEN readDataByID(w, f, t)
  ELSE readAllData(w, f, t)

\* ----------------------------------------------- delete, once opened
DeleteOpened(w, f) ==
  IF f.mode = "store"
  THEN [w |-> IF f.close THEN closeDB(w, f.db) ELSE w,
        f |-> Settle(f, "resolved", "none", True)]
  ELSE LET d == deleteDataInStore(w, f.key, OptionsOf(f))
       IN [w |-> d.w,
           f |-> IF d.settled = "resolved" THEN Settle(f, "resolved", "none", True)
                 ELSE Settle(f, "rejected", d.err, NoValue)]

\* the operation goes on in the task in which its openDB resolves
Opened(w, f, t, u) ==
  IF f.kind = "write" THEN WriteOpened(w, f, t, u)
  ELSE IF f.kind = "delete" THEN DeleteOpened(w, f)
  ELSE ReadOpened(w, f)

\* the listener of the operation throws in the upgrade
UpgradeThrows(db, f) ==
  f.kind = "write" /\ createStoreThrows(db, f.store, f.indexes)

\* the listener the operation gave to its native open
Upgrade(db, f) ==
  IF f.kind = "write" THEN createStore(db, f.store, f.indexes)
  ELSE IF f.kind = "delete" /\ f.mode = "store" THEN deleteObjectStore(db, f.store)
  ELSE db

\* --------------------------------------------------------------- inputs
DatabaseOpts == {Undefined, "other"}
CloseOpts == {Undefined, "false"}
MetaOpts == {Undefined, "true"}
ExpiresOpts ==
  {[kind |-> "undefined", n |-> 0], [kind |-> "number", n |-> 1],
   [kind |-> "date", n |-> 0]}

\* data objects: fresh data, data carrying an id
NewData == [id : {NoId}, todo : Vals]
IdData == [id : 1 .. MaxId, todo : Vals]

\* the documented declaration of an index on todo, and the one the tests use
DocumentedIndex == IndexDecl("todo", "unique")
TestedIndex == IndexDecl("todo", "unqiue")

CreateOpts ==
  [expires : ExpiresOpts, update : {FALSE}, database : DatabaseOpts,
   closeDatabase : {Undefined}, indexes : {<<>>, <<TestedIndex>>}]
UpdateOpts ==
  [expires : ExpiresOpts, update : {TRUE}, database : DatabaseOpts,
   closeDatabase : {Undefined}, indexes : {<<>>}]
NoOptions ==
  [expires |-> [kind |-> "undefined", n |-> 0], update |-> FALSE,
   database |-> Undefined, closeDatabase |-> Undefined, indexes |-> <<>>]

\* options with a value of a wrong type, or an index declaration without
\* its boolean
MalformedOpts ==
  {[NoOptions EXCEPT !.expires = [kind |-> "string", n |-> 0]],
   [NoOptions EXCEPT !.database = NotAString],
   [NoOptions EXCEPT !.closeDatabase = NotABoolean],
   [NoOptions EXCEPT !.indexes = <<IndexDecl("todo", "none")>>]}

\* what the caller got wrong in the options, if anything
Malformed(opts) ==
  IF opts.expires.kind \notin {"undefined", "number", "date"} THEN "expires"
  ELSE IF opts.database = NotAString THEN "database"
  ELSE IF opts.closeDatabase = NotABoolean THEN "closeDatabase"
  ELSE IF opts.indexes # <<>> /\ opts.indexes[1].flag = "none" THEN "indexes"
  ELSE "none"

\* index declarations: the documented scheme, a name declared twice, a
\* declared index named like the implicit one
IndexOpts ==
  {<<DocumentedIndex>>, <<TestedIndex, TestedIndex>>, <<IndexDecl("id", "unqiue")>>}

ReservedFields == {"expires", "createdAt", "updatedAt"}

\* read options: {id}, {index, nameValue} (nameValue 0 too), {} and {index}
ReadKeys ==
  [id : 1 .. MaxId, index : {Undefined}, nameValue : {NoId}]
    \cup [id : {NoId}, index : {"todo"}, nameValue : Vals \cup {0}]
    \cup [id : {NoId}, index : {Undefined, "todo"}, nameValue : {NoId}]

ReadOptions(k, database, closeDatabase, withMeta) ==
  [id |-> k.id, index |-> k.index, nameValue |-> k.nameValue,
   database |-> database, closeDatabase |-> closeDatabase, withMeta |-> withMeta]

DeleteOpts ==
  [storeName : Stores, type : {Undefined}, database : DatabaseOpts,
   closeDatabase : {Undefined}]
DeleteStoreOpts ==
  [storeName : {Undefined}, type : {"store"}, database : DatabaseOpts,
   closeDatabase : {Undefined}]
DeleteDatabaseOpts ==
  [storeName : {Undefined}, type : {"database"}, database : {Undefined},
   closeDatabase : {Undefined}]
FacadeDeleteOpts ==
  [storeName : Stores, type : {Undefined}, database : {Undefined},
   closeDatabase : {Undefined}]

\* what an earlier session left in a database: nothing, or the store with
\* the records its writes made at clock 1 (one with a date far ahead, or two
\* with the default lifetime)
Written(id, todo, expires) ==
  [id |-> id, todo |-> todo, expires |-> expires, createdAt |-> 1, updatedAt |-> 1]
Persisted ==
  {NoDB,
   [version |-> 1, stores |-> [s \in Stores |->
      [exists |-> TRUE, nextId |-> 2, indexes |-> {"id", "todo"},
       recs |-> {Written(1, 1, MaxClock + 1)}]]],
   [version |-> 1, stores |-> [s \in Stores |->
      [exists |-> TRUE, nextId |-> 3, indexes |-> {"id", "todo"},
       recs |-> {Written(1, 1, 1 + LIFETIME), Written(2, 2, 1 + LIFETIME)}]]]}

\* two records with the same todo, the older one about to expire, in the
\* default database
SameTodo ==
  [d \in DBs |->
     IF d # INDEXEDDB_DATABASE THEN NoDB
     ELSE [version |-> 1, stores |-> [s \in Stores |->
             [exists |-> TRUE, nextId |-> 3, indexes |-> {"id", "todo"},
              recs |-> {Written(1, 1, 1 + LIFETIME), Written(2, 1, MaxClock + 1)}]]]]

\* the caller awaits each operation before it starts the next
Ready == fg.pc \in {"idle", "done"} /\ ops < MaxOps

Room(w) == \A d \in DBs : Len(w.pending[d]) <= MaxPending

Step(r) == Room(r.w) /\ SetW(r.w) /\ fg' = r.f

\* what the clock can show when it is read a second time in the same task
Readings == {t \in {now, now + 1} : t <= MaxClock}

\* a step in which the clock was last read as u: only a create reads it twice
ClockStep(r, u) ==
  /\ \/ u = now
     \/ r.f.kind = "write" /\ r.f.mode = "create" /\ r.f.pc = "requested"
  /\ Step(r)
  /\ now' = u

\* openDB for the caller's operation f, and what follows in the same task
Begin(w, f, t, u) ==
  IF getDB(w, f.db) THEN Opened(w, f, t, u)
  ELSE [w |-> openDB(w, f.db, Request("open", "fg", t, f.store, f.key, f.close, FALSE)),
        f |-> [f EXCEPT !.pc = "opening"]]

\* ------------------------------------------ LocalStorageUtility (simple)
LocalKeys == {"message", "note"}

\* the item under a key: none, or the object JSON.parse gives back; an
\* object written with data undefined has no data key (JSON.stringify
\* leaves it out)
\* data undefined
NoData == NoId

NoItem ==
  [present |-> FALSE, hasData |-> FALSE, data |-> 0, expires |-> 0,
   createdAt |-> 0, updatedAt |-> 0]
Stringified(data, expires, createdAt, updatedAt) ==
  [present |-> TRUE, hasData |-> data # NoData,
   data |-> IF data = NoData THEN 0 ELSE data,
   expires |-> expires, createdAt |-> createdAt, updatedAt |-> updatedAt]

\* what a call returns: null, {data: null}, the data, the envelope, an
\* invalid item (as it is, or as {data: item}), a boolean
Returned(shape, item, b) == [shape |-> shape, item |-> item, b |-> b]

\* a call of the facade and what it returned
Call(op, key, data, expires, withMeta, ret) ==
  [op |-> op, key |-> key, data |-> data, expires |-> expires,
   withMeta |-> withMeta, ret |-> ret]
NoReturn ==
  Call("none", "message", NoData, [kind |-> "undefined", n |-> 0], Undefined,
       Returned("none", NoItem, FALSE))

localDelete(ls, key) == [ls EXCEPT ![key] = NoItem]

\* LocalStorageUtility.read: the value returned and the storage after it
localRead(ls, key, withMeta, t) ==
  LET obj == ls[key]
  IN IF ~obj.present
     THEN [ret |-> Returned(IF withMeta THEN "metaNull" ELSE "null", NoItem, FALSE),
           ls |-> ls]
     ELSE IF ~obj.hasData
     THEN [ret |-> Returned(IF withMeta THEN "metaInvalid" ELSE "invalid", obj, FALSE),
           ls |-> ls]
     ELSE IF t > obj.expires
     THEN [ret |-> Returned(IF withMeta THEN "metaNull" ELSE "null", NoItem, FALSE),
           ls |-> localDelete(ls, key)]
     ELSE [ret |-> Returned(IF withMeta THEN "envelope" ELSE "data", obj, FALSE),
           ls |-> ls]

\* LocalStorageUtility.has: this.read(key) !== null
localHas(ls, key, settings, t) ==
  LET r == localRead(ls, key, settings, t)
  IN [ret |-> Returned("bool", NoItem, r.ret.shape # "null"), ls |-> r.ls]

\* LocalStorageUtility.write: createdAt is kept from the live item the
\* write finds, the clock is read again (u) for updatedAt
localWrite(ls, key, data, options, t, u) ==
  LET item == localRead(ls, key, TRUE, t)
      createdAt == IF item.ret.shape = "envelope" THEN item.ret.item.createdAt
                   ELSE t
  IN [ret |-> Returned("bool", NoItem, TRUE),
      ls |-> [item.ls EXCEPT ![key] =
                Stringified(data, ExpiresAt(options.expires, t), createdAt, u)]]

\* ------------------------------------------------------------- actions
Init ==
  /\ now = 2
  /\ dbs \in [DBs -> Persisted] \cup {SameTodo}
  /\ registry = [d \in DBs |-> FALSE]
  /\ leaked = [d \in DBs |-> FALSE]
  /\ closed = [d \in DBs |-> FALSE]
  /\ pending = [d \in DBs |-> <<>>]
  /\ fg = Idle
  /\ ops = 0
  /\ prev = Summary(Idle)
  /\ localStorage = [k \in LocalKeys |-> NoItem]
  /\ WITH_META = FALSE
  /\ returned = NoReturn

Tick ==
  /\ now < MaxClock
  /\ now' = now + 1
  /\ UNCHANGED <<dbs, registry, leaked, closed, pending, fg, ops, prev>>
  /\ UNCHANGED simple

\* ScStorage.write with storage type IndexedDB: IndexedDBUtility.write
Write(storeName, data, opts) ==
  LET options == validateOptionsWrite(data, opts, now)
      err == IF options.err # "none" THEN options.err
             ELSE validateDataWrite(data, options)
      f == [Idle EXCEPT !.kind = "write",
              !.mode = IF options.update THEN "update" ELSE "create",
              !.db = options.database, !.store = storeName, !.key = data.id,
              !.todo = data.todo, !.expires = options.expires,
              !.ttl = (opts.expires.kind # "undefined"),
              !.close = options.closeDatabase, !.indexes = options.indexes,
              !.reserved = Reserved(data), !.malformed = Malformed(opts),
              !.given = opts.expires]
  IN /\ Ready
     /\ IF options.update \/ err # "none" THEN TRUE
        ELSE StoreOf(W, options.database, storeName).nextId <= MaxId
     /\ \E u \in Readings :
          ClockStep(IF err # "none"
                    THEN [w |-> W, f |-> Settle(f, "thrown", err, NoValue)]
                    ELSE Begin(W, f, now, u), u)
     /\ ops' = ops + 1
     /\ prev' = Summary(fg)

\* the caller's read or has, its options validated
ReadCall(kind, storeName, options) ==
  [Idle EXCEPT !.kind = kind, !.mode = ReadMode(options),
     !.db = options.database, !.store = storeName, !.key = options.id,
     !.index = options.index, !.nameValue = options.nameValue,
     !.close = options.closeDatabase, !.withMeta = options.withMeta]

\* ScStorage.read / ScStorage.has: IndexedDBUtility.read, IndexedDBUtility.has
Read(kind, storeName, opts) ==
  LET f == ReadCall(kind, storeName, validateOptionsRead(opts))
  IN /\ Ready
     /\ Step(Begin(W, f, now, now))
     /\ ops' = ops + 1
     /\ prev' = Summary(fg)
     /\ UNCHANGED now

\* IndexedDBUtility.delete
Delete(key, opts) ==
  LET options == validateDeleteOptions(opts)
      f == [Idle EXCEPT !.kind = "delete", !.mode = options.type,
              !.db = options.database, !.close = options.closeDatabase]
  IN /\ Ready
     /\ Step(IF options.type = "database"
             THEN [w |-> deleteDatabase(W, key),
                   f |-> Settle([f EXCEPT !.db = key], "resolved", "none", True)]
             ELSE IF options.type = "store"
             THEN Begin(closeDB(W, key), [f EXCEPT !.store = key], now, now)
             ELSE Begin(W, [f EXCEPT !.store = options.storeName, !.key = key],
                        now, now))
     /\ ops' = ops + 1
     /\ prev' = Summary(fg)
     /\ UNCHANGED now

\* The caller starts a read and, in the same task and without awaiting it,
\* delete(key, {type: 'database'}).  openDB of the read has asked getDB when
\* read returns; deleteDatabase then closes the cached connection and queues
\* its request synchronously and resolves true; the promise reactions of the
\* read (getStore after a cached connection, indexedDB.open after getDB
\* rejected) run after both calls have returned.
ReadThenDeleteDatabase(storeName, opts, key) ==
  LET f == ReadCall("read", storeName, validateOptionsRead(opts))
      w == deleteDatabase(W, key)
  IN /\ Ready
     /\ Step(IF getDB(W, f.db) THEN Opened(w, f, now, now)
             ELSE Begin(w, f, now, now))
     /\ ops' = ops + 1
     /\ prev' = Summary(Settle([Idle EXCEPT !.kind = "delete", !.mode = "database",
                                             !.db = key],
                               "resolved", "none", True))
     /\ UNCHANGED now

\* ScStorage.delete with storage type IndexedDB returns the backend object
FacadeDelete(key, opts) ==
  /\ Ready
  /\ fg' = Settle([Idle EXCEPT !.kind = "facadeDelete", !.key = key,
                     !.store = opts.storeName,
                     !.db = validateDeleteOptions(opts).database],
                  "resolved", "none", Value("utility", FALSE, <<>>, FALSE))
  /\ ops' = ops + 1
  /\ prev' = Summary(fg)
  /\ UNCHANGED <<now, dbs, registry, leaked, closed, pending>>
  /\ UNCHANGED simple

\* the completion event of the caller's data request
Callback ==
  /\ fg.pc = "requested"
  /\ Step(IF fg.kind = "write" THEN WriteCallback(W, fg)
          ELSE ReadCallback(W, fg, now))
  /\ UNCHANGED <<now, ops, prev>>

\* the engine serves the open request at the head of d's queue
NativeOpen(d) ==
  /\ pending[d] # <<>>
  /\ Head(pending[d]).kind = "open"
  /\ LET req == Head(pending[d])
         w0 == [W EXCEPT !.pending[d] = Tail(@)]
         upgrade == req.version > dbs[d].version
         opts == [database |-> d, storeName |-> req.store,
                  closeDatabase |-> req.close]
     IN IF req.version < dbs[d].version
        THEN \* VersionError: req.onerror
             ClockStep([w |-> rejectError(w0, opts),
                        f |-> IF req.who = "fg"
                              THEN Settle(fg, "rejected", "VersionError", NoValue)
                              ELSE IF req.notify /\ fg.pc = "awaitDelete"
                              THEN Resolved(fg, "null", <<>>)
                              ELSE fg], now)
        ELSE /\ upgrade => ~OpenConnection(W, d)
             /\ LET w1 == [w0 EXCEPT
                             !.dbs[d] = IF ~upgrade THEN @
                                        ELSE [(IF req.who = "fg" THEN Upgrade(@, fg) ELSE @)
                                                EXCEPT !.version = req.version],
                             !.leaked[d] = @ \/ (W.registry[d] /\ ~W.closed[d]),
                             !.registry[d] = TRUE,
                             !.closed[d] = FALSE]
                IN IF req.who = "fg" /\ upgrade /\ UpgradeThrows(dbs[d], fg)
                   THEN \* the engine aborts the upgrade: req.onerror
                        ClockStep([w |-> rejectError(w0, opts),
                                   f |-> Settle(fg, "rejected", "AbortError",
                                                NoValue)], now)
                   ELSE IF req.who = "fg"
                   THEN \E u \in Readings : ClockStep(Opened(w1, fg, now, u), u)
                   ELSE ClockStep([w |-> deleteDataInStore(w1, req.key, opts).w,
                                   f |-> IF req.notify /\ fg.pc = "awaitDelete"
                                         THEN Resolved(fg, "null", <<>>)
                                         ELSE fg], now)
  /\ UNCHANGED <<ops, prev>>

\* the engine serves a deleteDatabase request once no connection is open
NativeDeleteDatabase(d) ==
  /\ pending[d] # <<>>
  /\ Head(pending[d]).kind = "delete"
  /\ ~OpenConnection(W, d)
  /\ SetW([W EXCEPT !.pending[d] = Tail(@), !.dbs[d] = NoDB])
  /\ UNCHANGED <<now, fg, ops, prev>>

Next ==
  \/ Tick
  \/ \E s \in Stores, data \in NewData, o \in CreateOpts : Write(s, data, o)
  \/ \E s \in Stores, data \in IdData, o \in UpdateOpts : Write(s, data, o)
  \/ \E s \in Stores : Write(s, [id |-> 1, todo |-> 1], NoOptions)
  \/ \E s \in Stores : Write(s, [id |-> NoId, todo |-> 1], [NoOptions EXCEPT !.update = TRUE])
  \/ \E s \in Stores : Write(s, [id |-> NoId, todo |-> NoId], NoOptions)
  \/ \E s \in Stores :
        Write(s, [id |-> 1, todo |-> NoId], [NoOptions EXCEPT !.update = TRUE])
  \/ \E s \in Stores :
        Write(s, [id |-> NoId, todo |-> 1],
              [NoOptions EXCEPT !.expires = [kind |-> "number", n |-> 0]])
  \/ \E s \in Stores, r \in ReservedFields, u \in BOOLEAN :
        Write(s, [id |-> IF u THEN 1 ELSE NoId, todo |-> 1, reserved |-> r],
              [NoOptions EXCEPT !.update = u])
  \/ \E s \in Stores, o \in MalformedOpts : Write(s, [id |-> NoId, todo |-> 1], o)
  \/ \E s \in Stores, ix \in IndexOpts :
        Write(s, [id |-> NoId, todo |-> 1], [NoOptions EXCEPT !.indexes = ix])
  \/ \E s \in Stores, k \in ReadKeys, d \in DatabaseOpts, c \in CloseOpts,
        m \in MetaOpts : Read("read", s, ReadOptions(k, d, c, m))
  \/ \E s \in Stores, k \in ReadKeys, d \in DatabaseOpts, c \in CloseOpts :
        Read("has", s, ReadOptions(k, d, c, "false"))
  \/ \E k \in 1 .. MaxId, o \in DeleteOpts : Delete(k, o)
  \/ \E k \in Stores, o \in DeleteStoreOpts : Delete(k, o)
  \/ \E k \in DBs, o \in DeleteDatabaseOpts : Delete(k, o)
  \/ \E s \in Stores, k \in 1 .. MaxId, d \in DatabaseOpts, key \in DBs :
        ReadThenDeleteDatabase(s, ReadOptions([id |-> k, index |-> Undefined,
                                               nameValue |-> NoId],
                                              d, Undefined, Undefined), key)
  \/ \E k \in 1 .. MaxId, o \in FacadeDeleteOpts : FacadeDelete(k, o)
  \/ Callback
  \/ \E d \in DBs : NativeOpen(d)
  \/ \E d \in DBs : NativeDeleteDatabase(d)

Spec == Init /\ [][Next]_vars

\* ---------------------------------------------------------- properties
\* the records of every store (a store that does not exist holds none)
AllRecs == [d \in DBs |-> [s \in Stores |-> dbs[d].stores[s].recs]]

\* this step settles the caller's operation
Settles == fg'.pc = "done" /\ (fg.pc # "done" \/ ops' # ops)

False == Value("bool", FALSE, <<>>, FALSE)

\* C10: the facade forwards delete to the backend: a facade delete(id,
\* {storeName}) resolves true and the record with that id is gone.
C10_FacadeDeleteForwards ==
  (fg.pc = "done" /\ fg.kind = "facadeDelete")
    => /\ fg.value = True
       /\ RecById(StoreOf(W, fg.db, fg.store), fg.key) = {}

\* C8: an update that supplies an expires option stores the expiry computed
\* from that option, not the one of the existing record.
C8_UpdateRecomputesExpires ==
  [][(/\ fg.kind = "write" /\ fg.mode = "update" /\ fg.ttl
      /\ fg.pc # "requested" /\ fg'.pc = "requested"
      /\ RecById(StoreOf(W, fg.db, fg.store), fg.key) # {})
     => \A r \in RecById(dbs'[fg.db].stores[fg.store], fg.key) :
          r.expires = fg.expires]_vars

\* C5: whatever the database, a record that a read finds expired is no
\* longer stored in the store it was read from when the read settles.
C5_ExpiredDeletedWhereFound ==
  [][(/\ fg.kind \in {"read", "has"} /\ fg.pc \in {"requested", "awaitDelete"}
      /\ fg'.pc = "done")
     => \A i \in 1 .. Len(fg.found) :
          (Expired(fg.found[i], now) /\ fg.found[i].expires # 0)
            => fg.found[i] \notin dbs'[fg.db].stores[fg.store].recs]_vars

\* C2: a valid write of a new record always resolves true, the store being
\* created when it was missing, whether or not a connection was cached.
C2_WriteCreatesMissingStore ==
  (fg.pc = "done" /\ fg.kind = "write" /\ fg.mode = "create" /\ fg.outcome # "thrown")
    => fg.outcome = "resolved"

\* no write ever stored id in store s of database d
NeverWritten(d, s, id) ==
  ~dbs[d].stores[s].exists \/ id >= dbs[d].stores[s].nextId

\* C3: read and has of an id that was never written (missing database,
\* missing store, id never assigned) resolve not found / false, never reject.
C3_NeverWrittenNotFound ==
  [][(/\ Settles /\ fg'.kind \in {"read", "has"} /\ fg'.mode = "id"
      /\ NeverWritten(fg'.db, fg'.store, fg'.key))
     => /\ fg'.outcome = "resolved"
        /\ IF fg'.kind = "has" THEN fg'.value = False
           ELSE fg'.value.shape = "null"]_vars

\* C4: no read, in any mode, returns a record whose expires is less than
\* the clock at the time of the read.
C4_NoExpiredReturned ==
  [][(Settles /\ fg'.kind = "read" /\ fg'.outcome = "resolved")
     => \A i \in 1 .. Len(fg'.value.recs) : fg'.value.recs[i].expires >= now]_vars

\* the caller's operation follows, on the same store, the write that stored
\* prev.found or the read by id that returned it
Follows(kind, mode) ==
  /\ prev.kind = kind /\ prev.mode = mode /\ prev.outcome = "resolved"
  /\ prev.db = fg.db /\ prev.store = fg.store
  /\ prev.found # <<>> /\ prev.found[1].id = fg.key

\* a read by id settled after the operation that left prev.found: it
\* resolves with exactly that record, or with null once the record is dead
ReadsBack ==
  /\ fg.outcome = "resolved"
  /\ fg.value.shape \in {"record", "null"}
  /\ fg.value.shape = "record" => fg.value.recs = prev.found
  /\ now <= prev.found[1].expires => fg.value.shape = "record"

\* C1: write(store, data, {}) followed by read(store, {id}) with the assigned
\* id returns the fields of data plus id, expires (the clock of the call plus
\* the default lifetime), createdAt and updatedAt (the clock of the add); the
\* same read again returns the same record, and a read that returns a record
\* changes nothing in the store.  From the write resolving true until the
\* caller's next operation the record is in the store for the read to find.
C1_RoundTrip ==
  [][/\ (/\ ops' # ops /\ fg'.kind = "write" /\ fg'.mode = "create"
         /\ fg'.pc \in {"opening", "requested"} /\ ~fg'.ttl)
          => fg'.expires = now + LIFETIME
     /\ (/\ fg'.kind = "write" /\ fg'.mode = "create"
         /\ fg.pc # "requested" /\ fg'.pc = "requested")
          => LET rec == [id |-> dbs[fg'.db].stores[fg'.store].nextId,
                         todo |-> fg'.todo, expires |-> fg'.expires,
                         createdAt |-> now, updatedAt |-> now']
             IN /\ RecById(dbs[fg'.db].stores[fg'.store], rec.id) = {}
                /\ AllRecs' = [AllRecs EXCEPT ![fg'.db][fg'.store] = @ \cup {rec}]
                /\ fg'.found = <<rec>>
     /\ (fg.kind = "write" /\ fg.mode = "create" /\ fg.pc = "requested" /\ fg'.pc = "done")
          => fg'.outcome = "resolved" /\ fg'.value = True /\ fg'.found = fg.found
     /\ (/\ fg'.pc = "done" /\ fg'.kind = "write" /\ fg'.mode = "create"
         /\ fg'.outcome = "resolved")
          => fg'.found[1] \in dbs'[fg'.db].stores[fg'.store].recs
     /\ (/\ fg.kind = "read" /\ fg.mode = "id" /\ fg.pc = "requested"
         /\ fg'.pc = "done" /\ fg'.value.shape = "record")
          => dbs' = dbs
     /\ (/\ fg'.pc = "done" /\ fg'.kind = "read" /\ fg'.mode = "id"
         /\ (Follows("write", "create")' \/ Follows("read", "id")'))
          => ReadsBack']_vars

\* C6: a write that carries data.id without update fails before it touches
\* anything; an update whose id matches no record is rejected with the
\* not-found error (with the missing-store error when there is no store to
\* look in); neither changes the records of any store.
C6_BadWritesRejected ==
  [][/\ (ops' # ops /\ fg'.kind = "write" /\ fg'.mode = "create" /\ fg'.key # NoId)
          => /\ fg'.pc = "done" /\ fg'.outcome = "thrown" /\ fg'.err = "IdNotAllowed"
             /\ UNCHANGED <<dbs, registry, leaked, closed, pending>>
     /\ (/\ fg'.kind = "write" /\ fg'.mode = "update" /\ fg' # fg
         /\ fg.pc # "requested" /\ fg'.pc = "requested"
         /\ RecById(StoreOf(W, fg'.db, fg'.store), fg'.key) = {})
          => fg'.found = <<>>
     /\ (fg'.kind = "write" /\ fg'.mode = "update" /\ fg' # fg /\ fg'.found = <<>>)
          => /\ AllRecs' = AllRecs
             /\ fg'.pc = "done"
                  => /\ fg'.outcome \in {"rejected", "thrown"}
                     /\ fg.pc = "requested" => fg'.err = "IdNotFound"
                     /\ fg'.outcome = "rejected" /\ fg.pc # "requested"
                          => fg'.err = "StoreMissing"]_vars

\* C6 witness: an update of an id that a store with records does not hold
\* has been rejected
C6_Witness ==
  /\ fg.pc = "done" /\ fg.kind = "write" /\ fg.mode = "update"
  /\ fg.outcome = "rejected" /\ fg.err = "IdNotFound"
  /\ StoreOf(W, fg.db, fg.store).recs # {}

\* C7: an update of an existing id resolves true and leaves, under that id,
\* the new caller fields with the createdAt and the expires the record had
\* and updatedAt = the clock, not smaller than before; no other record
\* changes, the record is there from the update resolving true until the
\* caller's next operation, and a later read by that id returns it.
C7_UpdateKeepsEnvelope ==
  [][/\ (/\ fg'.kind = "write" /\ fg'.mode = "update"
         /\ fg.pc # "requested" /\ fg'.pc = "requested"
         /\ RecById(StoreOf(W, fg'.db, fg'.store), fg'.key) # {})
          => \E old \in RecById(StoreOf(W, fg'.db, fg'.store), fg'.key) :
               LET new == [id |-> old.id, todo |-> fg'.todo, expires |-> old.expires,
                           createdAt |-> old.createdAt, updatedAt |-> now]
               IN /\ AllRecs' = [AllRecs EXCEPT ![fg'.db][fg'.store] =
                                   (@ \ {old}) \cup {new}]
                  /\ new.updatedAt >= old.updatedAt
                  /\ fg'.found = <<new>>
     /\ (/\ fg.kind = "write" /\ fg.mode = "update" /\ fg.pc = "requested"
         /\ fg.found # <<>> /\ fg'.pc = "done")
          => fg'.outcome = "resolved" /\ fg'.value = True /\ fg'.found = fg.found
     /\ (/\ fg'.pc = "done" /\ fg'.kind = "write" /\ fg'.mode = "update"
         /\ fg'.outcome = "resolved")
          => fg'.found[1] \in dbs'[fg'.db].stores[fg'.store].recs
     /\ (/\ fg'.pc = "done" /\ fg'.kind = "read" /\ fg'.mode = "id"
         /\ Follows("write", "update")')
          => ReadsBack']_vars

\* C9: when delete(id, {storeName, database}) resolves true the record with
\* that id is gone and every other record of every store is as it was; a has
\* for that id on that store, called next, resolves false.
C9_DeleteRemovesRecord ==
  [][/\ (/\ Settles /\ fg'.kind = "delete" /\ fg'.mode = "data"
         /\ fg'.outcome = "resolved")
          => /\ fg'.value = True
             /\ AllRecs' = [AllRecs EXCEPT ![fg'.db][fg'.store] =
                              {r \in @ : r.id # fg'.key}]
     /\ (/\ fg'.pc = "done" /\ fg'.kind = "has" /\ fg'.mode = "id"
         /\ prev'.kind = "delete" /\ prev'.mode = "data" /\ prev'.outcome = "resolved"
         /\ prev'.db = fg'.db /\ prev'.store = fg'.store /\ prev'.key = fg'.key)
          => fg'.outcome = "resolved" /\ fg'.value = False]_vars

\* C9 witness: has resolved false for the id the delete before it removed,
\* in a store that still holds another record
C9_Witness ==
  /\ fg.pc = "done" /\ fg.kind = "has" /\ fg.mode = "id" /\ fg.value = False
  /\ prev.kind = "delete" /\ prev.mode = "data" /\ prev.outcome = "resolved"
  /\ prev.db = fg.db /\ prev.store = fg.store /\ prev.key = fg.key
  /\ StoreOf(W, fg.db, fg.store).recs # {}

\* C11: when delete(storeName, {type: 'store', database}) resolves true the
\* store no longer exists in that database and holds no record, whether or
\* not a connection to the database was cached when the call was made.
C11_DeleteStoreRemovesStore ==
  [][(/\ Settles /\ fg'.kind = "delete" /\ fg'.mode = "store"
      /\ fg'.outcome = "resolved")
     => /\ ~dbs'[fg'.db].stores[fg'.store].exists
        /\ dbs'[fg'.db].stores[fg'.store].recs = {}]_vars

\* C12: when the promise of delete(name, {type: 'database'}) resolves, the
\* database and all its stores no longer exist and the registry holds no
\* connection for name.
C12_DeleteDatabaseDone ==
  [][(/\ Settles /\ fg'.kind = "delete" /\ fg'.mode = "database"
      /\ fg'.outcome = "resolved")
     => dbs'[fg'.db] = NoDB /\ ~registry'[fg'.db]]_vars

\* C13: deleting what is not there (a record id the store does not hold, a
\* record in a store that does not exist, a store or a database that does
\* not exist) resolves true and changes no stored record.
C13_DeleteMissingResolves ==
  [][(/\ Settles /\ fg'.kind = "delete"
      /\ IF fg'.mode = "data"
         THEN RecById(StoreOf(W, fg'.db, fg'.store), fg'.key) = {}
         ELSE IF fg'.mode = "store" THEN ~StoreOf(W, fg'.db, fg'.store).exists
         ELSE dbs[fg'.db] = NoDB)
     => /\ fg'.outcome = "resolved" /\ fg'.value = True
        /\ AllRecs' = AllRecs]_vars

\* C14: for every database name at most one native connection is open, and
\* it is the one the registry holds: no connection is open that the
\* registry does not reference.
C14_OnlyRegistryConnections ==
  \A d \in DBs : ~leaked[d]

\* the native open requests for database d that are in flight
OpensInFlight(d) == {i \in 1 .. Len(pending[d]) : pending[d][i].kind = "open"}

\* C15: while a native open for a database name is in flight, a second
\* openDB for that name issues no second native open.
C15_OneOpenInFlight ==
  \A d \in DBs : Cardinality(OpensInFlight(d)) <= 1

\* C16: when operations on one database interleave and one of them closes
\* the cached connection, the other still runs on an open connection: it
\* never fails with the 'please open ... DB first' error of a registry
\* that was emptied under it.
C16_NoOpenFirstError ==
  fg.pc = "done" => fg.err # "OpenDBFirst"

\* the engine cannot serve the request at the head of d's queue: an upgrade
\* or a deleteDatabase waits for the open connections to d to close
Blocked(d) ==
  /\ pending[d] # <<>>
  /\ OpenConnection(W, d)
  /\ \/ Head(pending[d]).kind = "delete"
     \/ Head(pending[d]).version > dbs[d].version

\* the operations of Next with one value for the inputs that no branch of
\* the code looks at (the caller's field, withMeta, the extra index)
LiveNext ==
  \/ Tick
  \/ \E s \in Stores, d \in DatabaseOpts :
        Write(s, [id |-> NoId, todo |-> 1], [NoOptions EXCEPT !.database = d])
  \/ \E s \in Stores, k \in 1 .. MaxId, d \in DatabaseOpts :
        Write(s, [id |-> k, todo |-> 2],
              [NoOptions EXCEPT !.update = TRUE, !.database = d])
  \/ \E s \in Stores, k \in ReadKeys, d \in DatabaseOpts, c \in CloseOpts :
        Read("read", s, ReadOptions(k, d, c, Undefined))
  \/ \E s \in Stores, k \in 1 .. MaxId, d \in DatabaseOpts :
        Read("has", s, ReadOptions([id |-> k, index |-> Undefined, nameValue |-> NoId],
                                   d, Undefined, "false"))
  \/ \E k \in 1 .. MaxId, o \in DeleteOpts : Delete(k, o)
  \/ \E k \in Stores, o \in DeleteStoreOpts : Delete(k, o)
  \/ \E k \in DBs, o \in DeleteDatabaseOpts : Delete(k, o)
  \/ \E s \in Stores, k \in 1 .. MaxId, d \in DatabaseOpts, key \in DBs :
        ReadThenDeleteDatabase(s, ReadOptions([id |-> k, index |-> Undefined,
                                               nameValue |-> NoId],
                                              d, Undefined, Undefined), key)
  \/ \E o \in FacadeDeleteOpts : FacadeDelete(1, o)
  \/ Callback
  \/ \E d \in DBs : NativeOpen(d)
  \/ \E d \in DBs : NativeDeleteDatabase(d)

\* the engine serves every request it can serve, and every completion event
\* is delivered
LiveSpec ==
  /\ Init /\ [][LiveNext]_vars
  /\ WF_vars(Callback)
  /\ \A d \in DBs : WF_vars(NativeOpen(d)) /\ WF_vars(NativeDeleteDatabase(d))

SettlesInFlight ==
  fg.pc \in {"opening", "requested", "awaitDelete"} /\ fg'.pc = "done"

\* C18: when an operation with closeDatabase = true (write, read in any
\* mode, has, delete of a record or of a store) settles successfully and
\* nothing else is in flight, the registry holds no connection for its
\* database.
C18_ClosedAfterSuccess ==
  [][(/\ SettlesInFlight /\ fg.close /\ fg'.outcome = "resolved"
      /\ \A d \in DBs : pending'[d] = <<>>)
     => ~registry'[fg.db]]_vars

\* C19: when an operation with closeDatabase = true rejects (native open
\* failure, missing store, failed request, update of a missing id), the
\* cached connection of its database has been closed and evicted.
C19_ClosedBeforeReject ==
  [][(SettlesInFlight /\ fg.close /\ fg'.outcome = "rejected")
     => ~registry'[fg.db]]_vars

\* C20: a write or a delete resolves true only once its native request has
\* completed successfully: a write resolves from the completion event of
\* its add or put, and when a delete of a database resolves its
\* deleteDatabase request is no longer waiting in the engine.
C20_TrueOnlyAfterRequest ==
  [][/\ (Settles /\ fg'.kind = "write" /\ fg'.outcome = "resolved")
          => fg.pc = "requested" /\ ops' = ops
     /\ (/\ Settles /\ fg'.kind = "delete" /\ fg'.mode = "database"
         /\ fg'.outcome = "resolved")
          => \A i \in 1 .. Len(pending'[fg'.db]) :
               pending'[fg'.db][i].kind # "delete"]_vars

\* C21: a write whose data or options fail validation (a reserved field in
\* data, an option of a wrong type, update without an id, a malformed index
\* declaration) fails at once: no native open is issued, and the registry,
\* the databases, their stores and records are as they were.
C21_InvalidWriteNoEffect ==
  [][/\ (/\ ops' # ops /\ fg'.kind = "write"
         /\ \/ fg'.reserved # "none" \/ fg'.malformed # "none"
            \/ fg'.mode = "update" /\ fg'.key = NoId)
          => fg'.pc = "done" /\ fg'.outcome = "thrown"
     /\ (ops' # ops /\ fg'.kind = "write" /\ fg'.outcome = "thrown")
          => UNCHANGED <<dbs, registry, leaked, closed, pending>>]_vars

\* C21 witness: a write with a malformed index declaration has failed while
\* a connection was cached and a native open was in flight
C21_Witness ==
  /\ fg.pc = "done" /\ fg.kind = "write" /\ fg.outcome = "thrown"
  /\ fg.malformed = "indexes" /\ fg.err = "IndexesScheme"
  /\ \E d \in DBs : registry[d]
  /\ \E d \in DBs : pending[d] # <<>>

\* C22: a write whose data carries expires, createdAt or updatedAt, or id
\* without update, always fails; and in every state createdAt and updatedAt
\* of every stored record are readings of the engine's clock (createdAt not
\* after updatedAt, neither after now), not values of the caller.
C22_ReservedFieldsAreEngines ==
  /\ [][(/\ ops' # ops /\ fg'.kind = "write"
         /\ \/ fg'.reserved # "none"
            \/ fg'.mode = "create" /\ fg'.key # NoId)
        => /\ fg'.pc = "done" /\ fg'.outcome = "thrown"
           /\ AllRecs' = AllRecs]_vars
  /\ [](\A d \in DBs, s \in Stores : \A r \in AllRecs[d][s] :
          /\ r.createdAt \in 1 .. now
          /\ r.updatedAt \in r.createdAt .. now)

\* C22 witness: an update whose data carries updatedAt has failed, and the
\* record it named is stored with the time stamps it had
C22_Witness ==
  /\ fg.pc = "done" /\ fg.kind = "write" /\ fg.mode = "update"
  /\ fg.reserved = "updatedAt" /\ fg.outcome = "thrown"
  /\ \E r \in RecById(StoreOf(W, fg.db, fg.store), fg.key) : r.updatedAt < now

\* the records of the store that match what f asks for and are alive at t
LiveMatches(f, t) ==
  {r \in StoreOf(W, f.db, f.store).recs :
     /\ ~Expired(r, t)
     /\ f.mode = "id" => r.id = f.key
     /\ f.mode = "index" => IndexKey(r, f.index) = f.nameValue}

\* of the records the request of f has fetched, those alive at t
LiveFound(f, t) == {i \in 1 .. Len(f.found) : ~Expired(f.found[i], t)}

\* C23: has resolves true iff a live matching record exists: the request it
\* issues fetches a live record exactly when the store holds a live record
\* with that id, with that index value, or any live record at all; and it
\* resolves true exactly when what it fetched holds a record alive at the
\* time it settles.
C23_HasIffLiveRecord ==
  [][/\ (fg'.kind = "has" /\ fg.pc # "requested" /\ fg'.pc = "requested")
          => (LiveFound(fg', now) # {} <=> LiveMatches(fg', now) # {})
     /\ (fg.kind = "has" /\ fg.pc = "requested" /\ fg'.pc = "done")
          => /\ fg'.outcome = "resolved"
             /\ fg'.value.b = (LiveFound(fg, now) # {})]_vars

\* the mode the options of the call name: what is present decides
AskedMode(f) ==
  IF f.index # Undefined /\ f.nameValue # NoId THEN "index"
  ELSE IF f.key # NoId THEN "id"
  ELSE "all"

\* C24: read takes its mode from the options that are present: by index
\* when index and nameValue are given (whatever the nameValue), by id when
\* id is given, full scan otherwise; a lookup resolves one record or null
\* ({data: ...} with withMeta), a full scan resolves a list.
C24_ModeFromOptions ==
  [][(Settles /\ fg'.kind = "read" /\ fg'.outcome = "resolved")
     => IF AskedMode(fg') = "all" THEN fg'.value.shape = "list"
        ELSE fg'.value.shape \in {"record", "null"}]_vars

\* C25: a full scan fetches every record of the store exactly once (in
\* ascending id order when no index is given, and every record also when
\* the scan follows an index), and resolves with those of them that are
\* alive, in that order: no live record is skipped, no expired one returned.
C25_ScanReturnsLiveRecords ==
  [][/\ (/\ fg'.kind = "read" /\ fg'.mode = "all"
         /\ fg.pc # "requested" /\ fg'.pc = "requested")
          => /\ {fg'.found[i] : i \in 1 .. Len(fg'.found)}
                  = StoreOf(W, fg'.db, fg'.store).recs
             /\ Len(fg'.found) = Cardinality(StoreOf(W, fg'.db, fg'.store).recs)
             /\ fg'.index = Undefined
                  => \A i, j \in 1 .. Len(fg'.found) :
                       i < j => fg'.found[i].id < fg'.found[j].id
     /\ (/\ fg.kind = "read" /\ fg.mode = "all" /\ fg.pc = "requested"
         /\ fg'.pc = "done")
          => /\ fg'.outcome = "resolved" /\ fg'.value.shape = "list"
             /\ fg'.value.recs
                  = SelectSeq(fg.found, LAMBDA r : ~Expired(r, now))]_vars

\* the read starts a cleanup delete for the record r it found
Triggers(f, r, t) == Expired(r, t) /\ (f.mode = "all" => r.expires # 0)

\* the completion event of a read or has is handled in this step
ReadCompletes ==
  fg.pc = "requested" /\ fg.kind \in {"read", "has"} /\ fg'.pc # "requested"

\* the read is settled with "not found" for the records whose cleanup it
\* started
NotFound ==
  /\ fg'.pc = "done" /\ fg'.outcome = "resolved"
  /\ IF fg.mode = "all"
     THEN fg.kind = "read"
            => /\ fg'.value.shape = "list"
               /\ \A i \in 1 .. Len(fg'.value.recs) :
                    ~Triggers(fg, fg'.value.recs[i], now)
     ELSE IF fg.kind = "has" THEN fg'.value = False
     ELSE fg'.value.shape = "null"

\* the cleanup delete is rejected in the task of the completion event: the
\* connection of the database it goes to is cached and the store is missing
CleanupRejectedAtOnce ==
  /\ ReadCompletes
  /\ \E i \in 1 .. Len(fg.found) :
       /\ Triggers(fg, fg.found[i], now)
       /\ fg.mode \in {"id", "index"} => i = 1
  /\ getDB(W, INDEXEDDB_DATABASE)
  /\ getStore(W, INDEXEDDB_DATABASE, fg.store) # "ok"

\* the step serves the native open of a cleanup delete, and the delete is
\* rejected: the open fails, or the store is missing in the database opened
CleanupRejectedLater(d) ==
  /\ pending[d] # <<>>
  /\ Head(pending[d]).who = "bg"
  /\ Len(pending'[d]) < Len(pending[d])
  /\ \/ Head(pending[d]).version < dbs[d].version
     \/ ~dbs[d].stores[Head(pending[d]).store].exists

\* C26: a cleanup delete that fails never makes the read reject or hang.
\* A read by id and a full scan settle in the task of their completion
\* event without waiting for the delete, and a later failure of the delete
\* leaves the settled promise alone; a read by index that waits for the
\* delete is resolved in the step in which the delete is rejected.  In every
\* mode the read resolves with "not found" for the expired record (null,
\* has false, or a list without it).
C26_CleanupFailureSwallowed ==
  [][/\ CleanupRejectedAtOnce => NotFound
     /\ (/\ ReadCompletes /\ fg.mode \in {"id", "all"}
         /\ \E i \in 1 .. Len(fg.found) : Triggers(fg, fg.found[i], now))
          => NotFound
     /\ \A d \in DBs :
          CleanupRejectedLater(d)
            => IF Head(pending[d]).notify
               THEN /\ fg.pc = "awaitDelete" /\ fg'.pc = "done"
                    /\ fg'.outcome = "resolved"
                    /\ IF fg.kind = "has" THEN fg'.value = False
                       ELSE fg'.value.shape = "null"
               ELSE fg' = fg]_vars

\* C26 witness: a read by index of the other database has resolved null
\* after its cleanup delete was rejected: the delete went to the default
\* database, which has no such store, no request is left in flight, and the
\* expired record is still where the read found it
C26_Witness ==
  /\ fg.pc = "done" /\ fg.kind = "read" /\ fg.mode = "index"
  /\ fg.db # INDEXEDDB_DATABASE
  /\ fg.outcome = "resolved" /\ fg.value.shape = "null"
  /\ \E r \in StoreOf(W, fg.db, fg.store).recs :
       r.todo = fg.nameValue /\ Expired(r, now)
  /\ ~dbs[INDEXEDDB_DATABASE].stores[fg.store].exists
  /\ \A d \in DBs : pending[d] = <<>>

\* C27: an index declaration that follows the documented scheme
\* {indexKey, indexName, indexOptions: {unique, multiEntry}} is accepted by
\* write: a create of {todo: v} with such a declaration and nothing else at
\* fault is not refused by the validation, and once it has resolved true the
\* store has the declared index and holds the record under an assigned id.
C27_DocumentedIndexAccepted ==
  [][/\ (/\ ops' # ops /\ fg'.kind = "write" /\ fg'.mode = "create"
         /\ fg'.indexes = <<DocumentedIndex>>
         /\ fg'.reserved = "none" /\ fg'.malformed = "none")
          => fg'.outcome # "thrown"
     /\ (/\ Settles /\ fg'.kind = "write" /\ fg'.outcome = "resolved"
         /\ fg'.indexes = <<DocumentedIndex>>)
          => /\ "todo" \in StoreOf(W, fg'.db, fg'.store).indexes
             /\ IndexGet(StoreOf(W, fg'.db, fg'.store), "todo",
                         fg'.found[1].todo) # <<>>]_vars

\* C28: a store comes into being only in the upgrade of a write, with key
\* path id and auto-increment (its first record gets id 1) and with exactly
\* the implicit id index and one index for each declaration of
\* options.indexes.
C28_CreatedStoreShape ==
  [][\A d \in DBs, s \in Stores :
       (~dbs[d].stores[s].exists /\ dbs'[d].stores[s].exists)
         => /\ fg.kind = "write" /\ fg.db = d /\ fg.store = s
            /\ dbs'[d].stores[s].indexes
                 = {"id"} \cup {fg.indexes[i].indexName : i \in 1 .. Len(fg.indexes)}
            /\ Cardinality(dbs'[d].stores[s].indexes) = 1 + Len(fg.indexes)
            /\ IF fg.mode = "create"
               THEN /\ dbs'[d].stores[s].nextId = 2
                    /\ {r.id : r \in dbs'[d].stores[s].recs} = {1}
               ELSE /\ dbs'[d].stores[s].nextId = 1
                    /\ dbs'[d].stores[s].recs = {}]_vars

\* C28 witness: a write that declared the index todo has resolved, and the
\* store it created (its record 1 was made in this session) has the indexes
\* id and todo
C28_Witness ==
  /\ fg.pc = "done" /\ fg.kind = "write" /\ fg.outcome = "resolved"
  /\ fg.indexes = <<TestedIndex>>
  /\ StoreOf(W, fg.db, fg.store).indexes = {"id", "todo"}
  /\ \E r \in StoreOf(W, fg.db, fg.store).recs : r.id = 1 /\ r.createdAt > 1

\* the indexes the write in flight declares differ from those of its store
DeclaresOther(f) ==
  /\ f.kind = "write" /\ f.mode = "create"
  /\ StoreOf(W, f.db, f.store).exists
  /\ {"id"} \cup {f.indexes[i].indexName : i \in 1 .. Len(f.indexes)}
       # StoreOf(W, f.db, f.store).indexes

\* C29: once a store exists no write changes its indexes, and a write to
\* an existing store that declares other indexes than the store has is
\* accepted: it is not refused when it is called, when its open is served
\* the record is stored, and it resolves true; it never fails because the
\* store or an index already exists.
C29_IndexesFixedAtCreation ==
  [][/\ \A d \in DBs, s \in Stores :
          (dbs[d].stores[s].exists /\ dbs'[d].stores[s].exists)
            => dbs'[d].stores[s].indexes = dbs[d].stores[s].indexes
     /\ (/\ ops' # ops /\ fg'.kind = "write" /\ fg'.key = NoId
         /\ fg'.reserved = "none" /\ fg'.malformed = "none"
         /\ DeclaresOther(fg'))
          => /\ fg'.pc \in {"opening", "requested"}
             /\ fg'.pc = "requested"
                  => fg'.found[1] \in dbs'[fg'.db].stores[fg'.store].recs
     /\ (fg.pc = "opening" /\ fg'.pc # "opening" /\ DeclaresOther(fg))
          => /\ fg'.pc = "requested"
             /\ fg'.found # <<>>
             /\ fg'.found[1] \in dbs'[fg.db].stores[fg.store].recs
     /\ (fg.pc = "requested" /\ fg'.pc # "requested" /\ DeclaresOther(fg))
          => fg'.outcome = "resolved" /\ fg'.value = True]_vars

\* the write declares two indexes of one name, the implicit id index counted
DeclaresTwice(f) ==
  /\ f.kind = "write"
  /\ Cardinality({"id"} \cup {f.indexes[i].indexName : i \in 1 .. Len(f.indexes)})
       < 1 + Len(f.indexes)

\* C30: a write to a store that does not exist, with two declared indexes
\* of one name or with a declared index named id, is rejected with an
\* error: it never gets as far as its request, it does not resolve true,
\* and the database is as it was, without the store.
C30_DuplicateIndexRejected ==
  [][/\ (/\ ops' # ops /\ DeclaresTwice(fg')
         /\ ~StoreOf(W, fg'.db, fg'.store).exists)
          => /\ \/ fg'.pc = "opening"
                \/ fg'.pc = "done" /\ fg'.outcome \in {"thrown", "rejected"}
             /\ dbs' = dbs
     /\ (/\ fg.pc = "opening" /\ fg'.pc # "opening" /\ DeclaresTwice(fg)
         /\ ~StoreOf(W, fg.db, fg.store).exists)
          => /\ fg'.pc = "done" /\ fg'.outcome = "rejected"
             /\ dbs' = dbs]_vars

\* C30 witness: the upgrade of a write that declared the index todo twice
\* was aborted: the write is rejected, the store does not exist
C30_Witness ==
  /\ fg.pc = "done" /\ fg.kind = "write" /\ fg.outcome = "rejected"
  /\ fg.err = "AbortError"
  /\ fg.indexes = <<TestedIndex, TestedIndex>>
  /\ ~StoreOf(W, fg.db, fg.store).exists

\* C31: on a create the stored expires is the given instant for a Date, the
\* clock of the call plus n for a number n of milliseconds, and the clock of
\* the call plus LIFETIME when options.expires is missing: that is what the
\* write computes when it is called, and what the record it adds carries.
C31_StoredExpires ==
  [][/\ (/\ ops' # ops /\ fg'.kind = "write" /\ fg'.mode = "create"
         /\ fg'.outcome # "thrown")
          => fg'.expires = IF fg'.given.kind = "date" THEN fg'.given.n
                           ELSE IF fg'.given.kind = "number" THEN now + fg'.given.n
                           ELSE now + LIFETIME
     /\ (/\ fg'.kind = "write" /\ fg'.mode = "create"
         /\ fg.pc # "requested" /\ fg'.pc = "requested")
          => /\ fg'.found[1].expires = fg'.expires
             /\ fg'.found[1] \in dbs'[fg'.db].stores[fg'.store].recs]_vars

\* C32: the record a create adds has createdAt = updatedAt = the clock at
\* the add, and in every state every stored record has createdAt <=
\* updatedAt.
C32_CreatedAtIsUpdatedAt ==
  /\ [](\A d \in DBs, s \in Stores : \A r \in AllRecs[d][s] :
          r.createdAt <= r.updatedAt)
  /\ [][(/\ fg'.kind = "write" /\ fg'.mode = "create"
         /\ fg.pc # "requested" /\ fg'.pc = "requested")
          => /\ fg'.found[1] \in dbs'[fg'.db].stores[fg'.store].recs
             /\ fg'.found[1].createdAt = now
             /\ fg'.found[1].updatedAt = fg'.found[1].createdAt]_vars

\* C33: closeDB(name) with a cached connection removes the registry entry
\* and closes that handle (it does not stay open outside the registry);
\* closeDB(name) without a cached connection, or with a name that is no
\* database, changes nothing; and in every state every handle the registry
\* holds is open.  (A step in which a native open is served can register a
\* second connection before it closes: that step is left to C14.)
C33_CloseEvictsAndCloses ==
  /\ [](\A d \in DBs :
          /\ registry[d] => ~closed[d]
          /\ IF registry[d]
             THEN closeDB(W, d) = [W EXCEPT !.registry[d] = FALSE]
             ELSE closeDB(W, d) = W)
  /\ [](\A s \in Stores : closeDB(W, s) = W)
  /\ [][\A d \in DBs :
          (registry[d] /\ ~registry'[d] /\ Len(pending'[d]) >= Len(pending[d]))
            => leaked'[d] = leaked[d] /\ ~closed'[d]]_vars

\* C33 witness: the connection a write opened and registered has been
\* closed and evicted when the write resolved: the database is at a version
\* of this session, nothing is in flight, and no connection to it is open
C33_Witness ==
  /\ fg.pc = "done" /\ fg.kind = "write" /\ fg.outcome = "resolved"
  /\ dbs[fg.db].version > 1
  /\ \A d \in DBs : pending[d] = <<>>
  /\ ~registry[fg.db] /\ ~OpenConnection(W, fg.db)

\* the stores database d has
StoreSet(d) == {s \in Stores : dbs[d].stores[s].exists}

\* C34: a database comes into existence (its version leaves 0) only in the
\* open of a write; and the step that serves the open of a read or has
\* changes the version and the set of stores of no database.
C34_OnlyWriteCreatesDatabase ==
  [][/\ \A d \in DBs :
          (dbs[d].version = 0 /\ dbs'[d].version # 0)
            => /\ Head(pending[d]).who = "fg"
               /\ fg.kind = "write"
     /\ (fg.kind \in {"read", "has"} /\ fg.pc = "opening" /\ fg'.pc # "opening")
          => \A d \in DBs : /\ dbs'[d].version = dbs[d].version
                             /\ StoreSet(d)' = StoreSet(d)]_vars

\* the records this step takes out of store s of database d
Removed(d, s) == AllRecs[d][s] \ AllRecs'[d][s]

\* this step is the callback of a read or has: the records found are
\* examined and the expired ones handed to deleteMethod
ReadExamines ==
  /\ fg.kind \in {"read", "has"}
  /\ fg.pc = "requested"
  /\ fg'.pc # "requested"

\* this step serves the open that a read's deleteMethod queued on d
LazyDeleteServed(d) ==
  /\ pending[d] # <<>>
  /\ Head(pending[d]).who = "bg"
  /\ pending'[d] = Tail(pending[d])

\* C36: a read or has adds and changes no record; a record it removes, in
\* its callback or in the delete it queued, is expired; and its callback
\* removes records only of the database and store it was asked to read.
C36_ReadDeletesOnlyExpiredOfItsStore ==
  [][/\ ReadExamines
          => \A d \in DBs :
               /\ \A s \in Stores :
                    /\ AllRecs'[d][s] \subseteq AllRecs[d][s]
                    /\ \A r \in Removed(d, s) :
                         /\ d = fg.db
                         /\ s = fg.store
                         /\ Expired(r, now)
     /\ \A d \in DBs :
          LazyDeleteServed(d)
            => \A e \in DBs, s \in Stores :
                 /\ AllRecs'[e][s] \subseteq AllRecs[e][s]
                 /\ \A r \in Removed(e, s) :
                      /\ e = d
                      /\ s = Head(pending[d]).store
                      /\ Expired(r, now)]_vars

\* this step serves the native open at the head of d's queue
OpenServed(d) ==
  /\ pending[d] # <<>>
  /\ Head(pending[d]).kind = "open"
  /\ Len(pending'[d]) < Len(pending[d])

\* C37: every native open is served with a version strictly greater than
\* the version the database has at that moment, so that its upgrade handler
\* runs; and no operation is rejected with a version error.
C37_OpenVersionAboveCurrent ==
  [][/\ \A d \in DBs :
          OpenServed(d) => Head(pending[d]).version > dbs[d].version
     /\ fg'.err # "VersionError"]_vars

\* the ids present in store s of database d
Ids(d, s) == {r.id : r \in AllRecs[d][s]}

\* this step issues the add of a create, or the get and put of an update
Issues(mode) ==
  /\ fg'.kind = "write"
  /\ fg'.mode = mode
  /\ fg'.pc = "requested"
  /\ fg.pc # "requested"

\* C38: no store ever holds two records under one id; a create adds exactly
\* one record, under an id no record of the store held, and leaves every
\* other record as it was; an update neither adds nor removes an id.
C38_CreateTakesFreshId ==
  /\ [](\A d \in DBs, s \in Stores :
          \A r, q \in AllRecs[d][s] : r.id = q.id => r = q)
  /\ [][/\ Issues("create")
             => \E r \in AllRecs'[fg'.db][fg'.store] :
                  /\ r.id \notin Ids(fg'.db, fg'.store)
                  /\ AllRecs'[fg'.db][fg'.store] =
                       AllRecs[fg'.db][fg'.store] \cup {r}
        /\ Issues("update")
             => /\ {r.id : r \in AllRecs'[fg'.db][fg'.store]} = Ids(fg'.db, fg'.store)
                /\ Cardinality(AllRecs'[fg'.db][fg'.store]) =
                     Cardinality(AllRecs[fg'.db][fg'.store])]_vars

\* a create has added its record to a store that held another one
C38_Witness ==
  /\ fg.kind = "write" /\ fg.mode = "create" /\ fg.pc = "requested"
  /\ fg.found # <<>>
  /\ fg.found[1] \in AllRecs[fg.db][fg.store]
  /\ \E q \in AllRecs[fg.db][fg.store] : q.id < fg.found[1].id

\* C39: an update puts, under data.id, exactly the caller fields of data
\* (a field data lacks is gone from the record, whatever the record held)
\* with expires, createdAt and updatedAt; the store's other records stay as
\* they were.
C39_UpdateReplacesFields ==
  [][(Issues("update") /\ fg'.found # <<>>)
       => LET old == AllRecs[fg'.db][fg'.store]
              new == AllRecs'[fg'.db][fg'.store]
          IN /\ \E r \in new :
                  /\ r.id = fg'.key
                  /\ r.todo = fg'.todo
                  /\ new = {q \in old : q.id # fg'.key} \cup {r}
             /\ \A r \in new : r.id = fg'.key => r.todo = fg'.todo]_vars

\* the caller's first operation is an update whose data has no todo, on a
\* record that had one: the record stored now has none
C39_Witness ==
  /\ ops = 1
  /\ fg.kind = "write" /\ fg.mode = "update" /\ fg.pc = "requested"
  /\ fg.todo = NoId
  /\ fg.found # <<>>
  /\ \E r \in AllRecs[fg.db][fg.store] : r.id = fg.key /\ r.todo = NoId

\* ------------------------------------- the facade over the simple backend
\* values to store (undefined too), expiry options, options.withMeta
LocalData == Vals \cup {NoData}
LocalExpires ==
  {[kind |-> "undefined", n |-> 0]}
    \cup [kind : {"date"}, n : {1, MaxClock, MaxClock + 1}]
WithMetaOpts == {Undefined, "true", "false"}

IndexedDBVars == <<dbs, registry, leaked, closed, pending, fg, ops, prev>>

\* ScStorage.write with storage type LocalStorage
SimpleWrite(key, data, expires) ==
  \E u \in Readings :
    LET r == localWrite(localStorage, key, data, [expires |-> expires], now, u)
    IN /\ localStorage' = r.ls
       /\ returned' = Call("write", key, data, expires, Undefined, r.ret)
       /\ now' = u
       /\ UNCHANGED <<WITH_META, IndexedDBVars>>

\* ScStorage.read with storage type LocalStorage
SimpleRead(key, withMeta) ==
  LET r == localRead(localStorage, key, BoolOpt(withMeta, WITH_META), now)
  IN /\ localStorage' = r.ls
     /\ returned' = Call("read", key, NoData, NoReturn.expires, withMeta, r.ret)
     /\ UNCHANGED <<now, WITH_META, IndexedDBVars>>

\* ScStorage.has with storage type LocalStorage: the options are dropped
SimpleHas(key) ==
  LET r == localHas(localStorage, key, WITH_META, now)
  IN /\ localStorage' = r.ls
     /\ returned' = Call("has", key, NoData, NoReturn.expires, Undefined, r.ret)
     /\ UNCHANGED <<now, WITH_META, IndexedDBVars>>

\* ScStorage.delete with storage type LocalStorage
SimpleDelete(key) ==
  /\ localStorage' = localDelete(localStorage, key)
  /\ returned' = Call("delete", key, NoData, NoReturn.expires, Undefined,
                      Returned("bool", NoItem, TRUE))
  /\ UNCHANGED <<now, WITH_META, IndexedDBVars>>

\* a page with an empty localStorage and an ScStorage of either WITH_META
LocalInit ==
  /\ now = 2
  /\ dbs = [d \in DBs |-> NoDB]
  /\ registry = [d \in DBs |-> FALSE]
  /\ leaked = [d \in DBs |-> FALSE]
  /\ closed = [d \in DBs |-> FALSE]
  /\ pending = [d \in DBs |-> <<>>]
  /\ fg = Idle
  /\ ops = 0
  /\ prev = Summary(Idle)
  /\ localStorage = [k \in LocalKeys |-> NoItem]
  /\ WITH_META \in BOOLEAN
  /\ returned = NoReturn

LocalNext ==
  \/ Tick
  \/ \E k \in LocalKeys, v \in LocalData, e \in LocalExpires : SimpleWrite(k, v, e)
  \/ \E k \in LocalKeys, m \in WithMetaOpts : SimpleRead(k, m)
  \/ \E k \in LocalKeys : SimpleHas(k)
  \/ \E k \in LocalKeys : SimpleDelete(k)

LocalSpec == LocalInit /\ [][LocalNext]_vars

\* the step is a call of the facade with op on a key
Calls(op) ==
  /\ returned'.op = op
  /\ <<localStorage, returned>>' # <<localStorage, returned>>

\* the item under the key of the call is one a write stored and is alive
LiveItem(key) ==
  /\ localStorage[key].present /\ localStorage[key].hasData
  /\ localStorage[key].expires >= now

\* C35: the simple backend through the facade, WITH_META true or false.
\* write(key, v, {expires: d}) returns true and stores v with expires d;
\* while the item is alive read(key) without metadata returns v, with
\* metadata the envelope with data v and expires d, and has(key) is true;
\* delete(key) removes the item, and with no item has(key) is false and
\* read(key) is not found.
C35_SimpleBackendRoundTrip ==
  [][/\ (Calls("write") /\ returned'.data # NoData
         /\ returned'.expires.kind = "date")
          => /\ returned'.ret = Returned("bool", NoItem, TRUE)
             /\ localStorage'[returned'.key].present
             /\ localStorage'[returned'.key].hasData
             /\ localStorage'[returned'.key].data = returned'.data
             /\ localStorage'[returned'.key].expires = returned'.expires.n
     /\ (Calls("read") /\ LiveItem(returned'.key))
          => /\ returned'.withMeta = "false"
                  => /\ returned'.ret.shape = "data"
                     /\ returned'.ret.item.data = localStorage[returned'.key].data
             /\ returned'.withMeta = "true"
                  => /\ returned'.ret.shape = "envelope"
                     /\ returned'.ret.item = localStorage[returned'.key]
     /\ (Calls("has") /\ LiveItem(returned'.key)) => returned'.ret.b
     /\ Calls("delete") => ~localStorage'[returned'.key].present
     /\ (Calls("has") /\ ~localStorage[returned'.key].present)
          => ~returned'.ret.b
     /\ (Calls("read") /\ ~localStorage[returned'.key].present)
          => returned'.ret.shape \in {"null", "metaNull"}]_vars

====
